---- MODULE Spec2Model ----
(***************************************************************************)
(* Model of the `retrieve` library (src/src/lib.rs): the Dataset           *)
(* enumeration with its parse/render pair, the City record with its        *)
(* constructor, name helpers and dataset URL, and the CSV loader.          *)
(*                                                                         *)
(* A Rust String is a sequence of one-character strings, so that           *)
(* concatenation, formatting and URL serialisation are computed character  *)
(* by character.  The library keeps no state of its own: the variables     *)
(* hold the latest call (operation, receiver, arguments) and its return    *)
(* value, and `aborted` records that a panic has unwound the thread.       *)
(***************************************************************************)
EXTENDS Integers, Sequences, FiniteSets, TLC

VARIABLES op, self, newArgs, table, item, ds, ret, aborted

vars == <<op, self, newArgs, table, item, ds, ret, aborted>>

(***************************************************************************)
(* Bounds of the explored inputs.                                          *)
(***************************************************************************)
MaxUuidLen == 2
MaxRows == 2

(***************************************************************************)
(* Constants of the program.                                               *)
(***************************************************************************)
PFB_S3_STORAGE_BASE_URL ==
    <<"h", "t", "t", "p", "s", ":", "/", "/", "s", "3", ".", "a", "m", "a",
      "z", "o", "n", "a", "w", "s", ".", "c", "o", "m", "/", "p", "r", "o",
      "d", "u", "c", "t", "i", "o", "n", "-", "p", "f", "b", "-", "s", "t",
      "o", "r", "a", "g", "e", "-", "u", "s", "-", "e", "a", "s", "t", "-",
      "1", "/", "r", "e", "s", "u", "l", "t", "s">>

DS_NEIGHBORHOOD_WAYS ==
    <<"n", "e", "i", "g", "h", "b", "o", "r", "h", "o", "o", "d", "_", "w",
      "a", "y", "s">>

(***************************************************************************)
(* Return values.  One record shape for every Result: `tag` is "Ok" or     *)
(* "Err" ("None" before any call returned), and only the field of the      *)
(* returned type is filled in.                                             *)
(***************************************************************************)
NoDataset == "none"

NoRet == [tag |-> "None", str |-> <<>>, cities |-> <<>>, ds |-> NoDataset, err |-> ""]

OkStr(s) == [tag |-> "Ok", str |-> s, cities |-> <<>>, ds |-> NoDataset, err |-> ""]

OkCities(cs) == [tag |-> "Ok", str |-> <<>>, cities |-> cs, ds |-> NoDataset, err |-> ""]

OkDataset(d) == [tag |-> "Ok", str |-> <<>>, cities |-> <<>>, ds |-> d, err |-> ""]

Err(e) == [tag |-> "Err", str |-> <<>>, cities |-> <<>>, ds |-> NoDataset, err |-> e]

(***************************************************************************)
(* Dataset: the enumeration, From<&str> and Display.                       *)
(***************************************************************************)
Dataset == {"NeighborhoodWays"}

\* From<&str>: the match either yields the variant or panics.
DatasetFrom(i) ==
    IF i = DS_NEIGHBORHOOD_WAYS
    THEN [panic |-> FALSE, ret |-> OkDataset("NeighborhoodWays")]
    ELSE [panic |-> TRUE, ret |-> NoRet]

DatasetDisplayDebugName(d) ==
    <<"N", "e", "i", "g", "h", "b", "o", "r", "h", "o", "o", "d", "W", "a", "y", "s">>

DatasetDisplay(d) ==
    CASE d = "NeighborhoodWays" -> DS_NEIGHBORHOOD_WAYS

(***************************************************************************)
(* City.                                                                   *)
(***************************************************************************)
None == [some |-> FALSE, val |-> <<>>]

Some(s) == [some |-> TRUE, val |-> s]

CityNewIgnoringState(name, country, state, uuid) ==
    [name |-> name, country |-> country, state |-> country, uuid |-> uuid]

CityNew(name, country, state, uuid) ==
    [name |-> name,
     country |-> country,
     state |-> IF state.some THEN state.val ELSE country,
     uuid |-> uuid]

full_name_spaced(c) ==
    c.country \o <<" ", "-", " ">> \o c.state \o <<"-">> \o c.name

full_name(c) ==
    c.country \o <<"-">> \o c.state \o <<"-">> \o c.name

zip_name(c) ==
    full_name(c) \o <<".", "z", "i", "p">>

(***************************************************************************)
(* Url::parse, as far as the text composed by neighborhood_ways_url can    *)
(* exercise it.  The text always begins with the scheme and host of        *)
(* PFB_S3_STORAGE_BASE_URL, which the parser keeps as written; what        *)
(* follows is split into path, query and fragment, the path is cut into    *)
(* segments with dot segments resolved, and the characters of each         *)
(* component's percent-encode set are escaped.  Parsing never fails once   *)
(* the host has been read.                                                 *)
(***************************************************************************)
ORIGIN == SubSeq(PFB_S3_STORAGE_BASE_URL, 1, 24)

\* Index of the first character of s that is in stops, Len(s) + 1 if none.
FirstIndex(s, stops) ==
    IF \E i \in 1..Len(s) : s[i] \in stops
    THEN CHOOSE i \in 1..Len(s) :
            s[i] \in stops /\ \A j \in 1..(i - 1) : s[j] \notin stops
    ELSE Len(s) + 1

PercentCode(c) ==
    CASE c = " " -> <<"%", "2", "0">>
      [] c = "?" -> <<"%", "3", "F">>
      [] c = "#" -> <<"%", "2", "3">>

PATH_SEGMENT == {" ", "?", "#"}

QUERY == {" ", "#"}

FRAGMENT == {" "}

RECURSIVE PercentEncode(_, _)
PercentEncode(s, encodeSet) ==
    IF s = <<>> THEN <<>>
    ELSE (IF Head(s) \in encodeSet THEN PercentCode(Head(s)) ELSE <<Head(s)>>)
         \o PercentEncode(Tail(s), encodeSet)

ShortenPath(segs) ==
    IF segs = <<>> THEN segs ELSE SubSeq(segs, 1, Len(segs) - 1)

\* input is the path text after a "/"; segs are the segments read so far.
RECURSIVE ParsePath(_, _)
ParsePath(input, segs) ==
    LET k == FirstIndex(input, {"/"})
        segment == SubSeq(input, 1, k - 1)
        ends_with_slash == k <= Len(input)
        rest == SubSeq(input, k + 1, Len(input))
        next == IF segment = <<".", ".">>
                THEN ShortenPath(segs) \o (IF ends_with_slash THEN <<>> ELSE << <<>> >>)
                ELSE IF segment = <<".">>
                THEN (IF ends_with_slash THEN segs ELSE Append(segs, <<>>))
                ELSE Append(segs, PercentEncode(segment, PATH_SEGMENT))
    IN  IF ends_with_slash THEN ParsePath(rest, next) ELSE next

RECURSIVE SerializePath(_)
SerializePath(segs) ==
    IF segs = <<>> THEN <<>>
    ELSE <<"/">> \o Head(segs) \o SerializePath(Tail(segs))

UrlParse(input) ==
    LET afterHost == SubSeq(input, Len(ORIGIN) + 1, Len(input))
        p == FirstIndex(afterHost, {"?", "#"})
        pathText == SubSeq(afterHost, 2, p - 1)
        afterPath == SubSeq(afterHost, p, Len(afterHost))
        hasQuery == afterPath # <<>> /\ Head(afterPath) = "?"
        f == FirstIndex(afterPath, {"#"})
        queryText == IF hasQuery THEN SubSeq(afterPath, 2, f - 1) ELSE <<>>
        hasFragment == f <= Len(afterPath)
        fragmentText == SubSeq(afterPath, f + 1, Len(afterPath))
    IN  OkStr(ORIGIN
              \o SerializePath(ParsePath(pathText, <<>>))
              \o (IF hasQuery THEN <<"?">> \o PercentEncode(queryText, QUERY) ELSE <<>>)
              \o (IF hasFragment THEN <<"#">> \o PercentEncode(fragmentText, FRAGMENT) ELSE <<>>))

neighborhood_ways_url(c) ==
    LET dataset_url == PFB_S3_STORAGE_BASE_URL \o <<"/">> \o c.uuid \o <<"/">>
                       \o DatasetDisplay("NeighborhoodWays") \o <<".", "z", "i", "p">>
    IN  UrlParse(dataset_url)

url(c, dataset) ==
    CASE dataset = "NeighborhoodWays" -> neighborhood_ways_url(c)

(***************************************************************************)
(* City::from_csv.  A table is the file as the csv reader sees it: whether *)
(* it can be opened, the header record and the data records.  The reader   *)
(* is not flexible, so a record whose field count differs from the         *)
(* header's is an error; serde then fills the struct by header name.       *)
(***************************************************************************)
Column(header, field) == {i \in 1..Len(header) : header[i] = field}

Field(header, record, field) == record[CHOOSE i \in Column(header, field) : TRUE]

CITY_FIELDS == {"City", "Country", "State", "uuid"}

DeserializeByPosition(header, record) ==
    IF Len(record) # Len(header) THEN Err("UnequalLengths")
    ELSE IF \E f \in CITY_FIELDS : Column(header, f) = {} THEN Err("missing field")
    ELSE IF \E f \in CITY_FIELDS : Cardinality(Column(header, f)) > 1 THEN Err("duplicate field")
    ELSE OkCities(<<[name |-> record[1], country |-> record[2],
                     state |-> record[3], uuid |-> record[4]]>>)

Deserialize(header, record) ==
    IF Len(record) # Len(header) THEN Err("UnequalLengths")
    ELSE IF \E f \in CITY_FIELDS : Column(header, f) = {} THEN Err("missing field")
    ELSE IF \E f \in CITY_FIELDS : Cardinality(Column(header, f)) > 1 THEN Err("duplicate field")
    ELSE OkCities(<<[name |-> Field(header, record, "City"),
                     country |-> Field(header, record, "Country"),
                     state |-> Field(header, record, "State"),
                     uuid |-> Field(header, record, "uuid")]>>)

RECURSIVE from_csv_loop_partial(_, _, _)
from_csv_loop_partial(header, records, cities) ==
    IF records = <<>> THEN OkCities(cities)
    ELSE LET record == Deserialize(header, Head(records))
         IN  IF record.tag = "Err"
             THEN [record EXCEPT !.cities = cities]
             ELSE from_csv_loop_partial(header, Tail(records), cities \o record.cities)

\* The for loop: `record?` returns the error and drops `cities`.
RECURSIVE from_csv_loop(_, _, _)
from_csv_loop(header, records, cities) ==
    IF records = <<>> THEN OkCities(cities)
    ELSE LET record == Deserialize(header, Head(records))
         IN  IF record.tag = "Err"
             THEN record
             ELSE from_csv_loop(header, Tail(records), cities \o record.cities)

from_csv(t) ==
    IF ~t.open THEN Err("Io")
    ELSE from_csv_loop(t.header, t.rows, <<>>)

(***************************************************************************)
(* Inputs.                                                                 *)
(***************************************************************************)
SeqsUpTo(S, n) == UNION {[1..k -> S] : k \in 0..n}

Paris == <<"P", "a", "r", "i", "s">>

France == <<"F", "r", "a", "n", "c", "e">>

abc123 == <<"a", "b", "c", "1", "2", "3">>

def456 == <<"d", "e", "f", "4", "5", "6">>

Names == {Paris, <<"a">>}

Countries == {France, <<>>}

States == {None, Some(<<>>), Some(<<"C", "O">>)}

UuidChars == {"a", " ", ".", "/", "?", "#"}

Uuids == SeqsUpTo(UuidChars, MaxUuidLen) \cup {abc123, def456}

ItemNames == {DS_NEIGHBORHOOD_WAYS, <<>>, <<"w", "a", "y", "s">>,
              <<"N", "e", "i", "g", "h", "b", "o", "r", "h", "o", "o", "d", "W", "a", "y", "s">>}

Headers == {<<"City", "Country", "State", "uuid">>,
            <<"uuid", "State", "Country", "City">>,
            <<"City", "Country", "State">>,
            <<"City", "Country", "state", "uuid">>}

FieldVals == {<<>>, <<"a">>}

Records == [1..3 -> FieldVals] \cup [1..4 -> FieldVals]

NoArgs == [name |-> <<>>, country |-> <<>>, state |-> None, uuid |-> <<>>]

NoTable == [open |-> FALSE, header |-> <<>>, rows |-> <<>>]

(***************************************************************************)
(* The calls.  `self` holds the City the caller has at hand, as a sequence *)
(* of length 0 or 1.  City::new and City::from_csv take nothing from the   *)
(* caller's earlier calls and overwrite every variable, so they are taken  *)
(* from the initial state only: taking them from any later state leads to  *)
(* the same states.                                                        *)
(***************************************************************************)
Init ==
    /\ op = "start"
    /\ self = <<>>
    /\ newArgs = NoArgs
    /\ table = NoTable
    /\ item = <<>>
    /\ ds = NoDataset
    /\ ret = NoRet
    /\ aborted = FALSE

CallNew ==
    /\ op = "start"
    /\ \E name \in Names, country \in Countries, state \in States, uuid \in Uuids :
          /\ newArgs' = [name |-> name, country |-> country, state |-> state, uuid |-> uuid]
          /\ self' = <<CityNew(name, country, state, uuid)>>
    /\ op' = "new"
    /\ table' = NoTable
    /\ item' = <<>>
    /\ ds' = NoDataset
    /\ ret' = NoRet
    /\ UNCHANGED aborted

CallFullName ==
    /\ ~aborted
    /\ self # <<>>
    /\ op' = "full_name"
    /\ ret' = OkStr(full_name(self[1]))
    /\ UNCHANGED <<self, newArgs, table, item, ds, aborted>>

CallZipName ==
    /\ ~aborted
    /\ self # <<>>
    /\ op' = "zip_name"
    /\ ret' = OkStr(zip_name(self[1]))
    /\ UNCHANGED <<self, newArgs, table, item, ds, aborted>>

CallUrl ==
    /\ ~aborted
    /\ self # <<>>
    /\ \E dataset \in Dataset :
          /\ ds' = dataset
          /\ ret' = url(self[1], dataset)
    /\ op' = "url"
    /\ UNCHANGED <<self, newArgs, table, item, aborted>>

CallFromCsv ==
    /\ op = "start"
    /\ \/ table' = NoTable
       \/ \E header \in Headers, rows \in SeqsUpTo(Records, MaxRows) :
             table' = [open |-> TRUE, header |-> header, rows |-> rows]
    /\ ret' = from_csv(table')
    /\ op' = "from_csv"
    /\ self' = <<>>
    /\ newArgs' = NoArgs
    /\ item' = <<>>
    /\ ds' = NoDataset
    /\ UNCHANGED aborted

\* The caller takes one City out of the Vec that from_csv returned.
TakeCity ==
    /\ ~aborted
    /\ op \in {"from_csv", "take"}
    /\ ret.tag = "Ok"
    /\ \E i \in 1..Len(ret.cities) : self' = <<ret.cities[i]>>
    /\ op' = "take"
    /\ UNCHANGED <<newArgs, table, item, ds, ret, aborted>>

CallDisplay ==
    /\ ~aborted
    /\ \E dataset \in Dataset :
          /\ ds' = dataset
          /\ ret' = OkStr(DatasetDisplay(dataset))
    /\ op' = "display"
    /\ item' = <<>>
    /\ UNCHANGED <<self, newArgs, table, aborted>>

\* Dataset::from on a name the caller supplies.
CallFrom ==
    /\ ~aborted
    /\ \E i \in ItemNames :
          /\ item' = i
          /\ ret' = DatasetFrom(i).ret
          /\ aborted' = DatasetFrom(i).panic
    /\ op' = "from"
    /\ ds' = NoDataset
    /\ UNCHANGED <<self, newArgs, table>>

\* Dataset::from on the text that Display has just rendered for `ds`.
CallFromDisplayed ==
    /\ ~aborted
    /\ op = "display"
    /\ item' = ret.str
    /\ ret' = DatasetFrom(ret.str).ret
    /\ aborted' = DatasetFrom(ret.str).panic
    /\ op' = "from_displayed"
    /\ UNCHANGED <<self, newArgs, table, ds>>

Next ==
    \/ CallNew
    \/ CallFullName
    \/ CallZipName
    \/ CallUrl
    \/ CallFromCsv
    \/ TakeCity
    \/ CallDisplay
    \/ CallFrom
    \/ CallFromDisplayed

Spec == Init /\ [][Next]_vars

(***************************************************************************)
(* Properties.                                                             *)
(***************************************************************************)
\* The value row i of the loaded table holds under the header column `field`.
RowValue(i, field) ==
    table.rows[i][CHOOSE j \in 1..Len(table.header) : table.header[j] = field]

ResultsPrefixText ==
    <<"h", "t", "t", "p", "s", ":", "/", "/", "s", "3", ".", "a", "m", "a",
      "z", "o", "n", "a", "w", "s", ".", "c", "o", "m", "/", "p", "r", "o",
      "d", "u", "c", "t", "i", "o", "n", "-", "p", "f", "b", "-", "s", "t",
      "o", "r", "a", "g", "e", "-", "u", "s", "-", "e", "a", "s", "t", "-",
      "1", "/", "r", "e", "s", "u", "l", "t", "s", "/">>

ArchiveSuffixText ==
    <<"/", "n", "e", "i", "g", "h", "b", "o", "r", "h", "o", "o", "d", "_",
      "w", "a", "y", "s", ".", "z", "i", "p">>

CanonicalNameText ==
    <<"n", "e", "i", "g", "h", "b", "o", "r", "h", "o", "o", "d", "_", "w",
      "a", "y", "s">>

\* C1: whenever City::url(c, NeighborhoodWays) succeeds, the returned URL is
\* exactly "https://s3.amazonaws.com/production-pfb-storage-us-east-1/results/"
\* followed by c.uuid and "/neighborhood_ways.zip".
C1_UrlIsPrefixUuidArchive ==
    (op = "url" /\ ds = "NeighborhoodWays" /\ ret.tag = "Ok")
        => ret.str = ResultsPrefixText \o self[1].uuid \o ArchiveSuffixText

\* C2: every City that from_csv builds from a row whose State value is empty
\* has state equal to that row's Country value.
C2_EmptyStateFallsBackToCountry ==
    (op = "from_csv" /\ ret.tag = "Ok")
        => \A i \in 1..Len(ret.cities) :
              RowValue(i, "State") = <<>>
                  => ret.cities[i].state = RowValue(i, "Country")

\* C3: every City built by City::new (state = Some("") included) or decoded by
\* from_csv has a non-empty state, given a non-empty country.
C3_StateNeverEmpty ==
    /\ (op = "new" /\ self[1].country # <<>>) => self[1].state # <<>>
    /\ (op = "from_csv" /\ ret.tag = "Ok")
          => \A i \in 1..Len(ret.cities) :
                ret.cities[i].country # <<>> => ret.cities[i].state # <<>>

\* C4: parsing a dataset name other than "neighborhood_ways" returns a
\* recoverable UnknownDatasetName error: no Dataset is constructed and the
\* process is not aborted.
C4_UnknownNameIsRecoverableError ==
    (op = "from" /\ item # CanonicalNameText)
        => /\ ~aborted
           /\ ret.tag = "Err"
           /\ ret.err = "UnknownDatasetName"
           /\ ret.ds = NoDataset

\* C5: for every variant v of Dataset, Dataset::from of the name Display
\* renders for v is v again, and NeighborhoodWays renders as exactly
\* "neighborhood_ways".
C5_DisplayFromRoundTrip ==
    /\ (op = "display" /\ ds = "NeighborhoodWays") => ret.str = CanonicalNameText
    /\ op = "from_displayed" => (~aborted /\ ret.tag = "Ok" /\ ret.ds = ds)

C5_Witness ==
    /\ op = "from_displayed"
    /\ ds = "NeighborhoodWays"
    /\ item = CanonicalNameText
    /\ ret.ds = "NeighborhoodWays"

C7_OneCityPerRowInOrder ==
    (op = "from_csv" /\ ret.tag = "Ok")
        => /\ Len(ret.cities) = Len(table.rows)
           /\ \A i \in 1..Len(table.rows) :
                 /\ ret.cities[i].name = RowValue(i, "City")
                 /\ ret.cities[i].country = RowValue(i, "Country")
                 /\ ret.cities[i].uuid = RowValue(i, "uuid")
                 /\ RowValue(i, "State") # <<>>
                       => ret.cities[i].state = RowValue(i, "State")

C7_Witness ==
    /\ op = "from_csv"
    /\ ret.tag = "Ok"
    /\ table.header = <<"uuid", "State", "Country", "City">>
    /\ Len(table.rows) = 2
    /\ Len(ret.cities) = 2
    /\ table.rows[1] = <<<<"a">>, <<"a">>, <<>>, <<>>>>
    /\ table.rows[2] = <<<<>>, <<>>, <<"a">>, <<"a">>>>
    /\ ret.cities[1].uuid = <<"a">>
    /\ ret.cities[2].name = <<"a">>

\* C8: for every City whose uuid contains a space or another URL-breaking
\* character, City::url fails with InvalidUrl and returns no URL.
C8_BreakingUuidIsInvalidUrl ==
    (op = "url" /\ \E i \in 1..Len(self[1].uuid) : self[1].uuid[i] \in {" ", "?", "#"})
        => (ret.tag = "Err" /\ ret.err = "InvalidUrl" /\ ret.str = <<>>)

\* C9: full_name(c) is exactly country, "-", state, "-", name with nothing
\* else added, zip_name(c) is exactly that followed by ".zip", and neither
\* call changes c.
C9_IsFullNameOf(text, c) ==
    LET a == Len(c.country)
        b == Len(c.state)
        n == Len(c.name)
    IN  /\ Len(text) = a + 1 + b + 1 + n
        /\ SubSeq(text, 1, a) = c.country
        /\ text[a + 1] = "-"
        /\ SubSeq(text, a + 2, a + 1 + b) = c.state
        /\ text[a + b + 2] = "-"
        /\ SubSeq(text, a + b + 3, a + b + 2 + n) = c.name

C9_NamesOk ==
    /\ op = "full_name" => C9_IsFullNameOf(ret.str, self[1])
    /\ op = "zip_name" =>
          /\ Len(ret.str) >= 4
          /\ C9_IsFullNameOf(SubSeq(ret.str, 1, Len(ret.str) - 4), self[1])
          /\ SubSeq(ret.str, Len(ret.str) - 3, Len(ret.str)) = <<".", "z", "i", "p">>

\* C9: the texts returned by full_name and zip_name have the exact form above
\* in every state, and a full_name or zip_name call leaves the City unchanged.
C9_FullNameAndZipName ==
    /\ []C9_NamesOk
    /\ [][op' \in {"full_name", "zip_name"} => self' = self]_vars

C9_Witness ==
    /\ op = "zip_name"
    /\ self[1].name = Paris
    /\ self[1].state = <<"C", "O">>
    /\ ret.str = <<"F", "r", "a", "n", "c", "e", "-", "C", "O", "-",
                   "P", "a", "r", "i", "s", ".", "z", "i", "p">>

\* C10: City::new copies name, country and uuid unchanged and sets state to s
\* for Some(s) and to country for None; City::new("Paris", "France", None,
\* "def456") has state "France" and full_name "France-France-Paris".
C10_NewCopiesAndDefaultsState ==
    /\ op = "new" =>
          /\ self[1].name = newArgs.name
          /\ self[1].country = newArgs.country
          /\ self[1].uuid = newArgs.uuid
          /\ newArgs.state.some => self[1].state = newArgs.state.val
          /\ ~newArgs.state.some => self[1].state = newArgs.country
    /\ (/\ op = "full_name"
        /\ newArgs = [name |-> Paris, country |-> France, state |-> None, uuid |-> def456])
          => /\ self[1].state = <<"F", "r", "a", "n", "c", "e">>
             /\ ret.str = <<"F", "r", "a", "n", "c", "e", "-", "F", "r", "a",
                            "n", "c", "e", "-", "P", "a", "r", "i", "s">>

C10_Witness ==
    /\ op = "full_name"
    /\ newArgs = [name |-> Paris, country |-> France, state |-> None, uuid |-> def456]
    /\ ret.str = <<"F", "r", "a", "n", "c", "e", "-", "F", "r", "a",
                   "n", "c", "e", "-", "P", "a", "r", "i", "s">>

====
